---- MODULE Spec2Model ----
(***************************************************************************)
(* A model of the IoT sensor data generator (iot-data-stream.py): the      *)
(* sensor registry, SensorDevice, DataGenerator and the emission loop of   *)
(* main().                                                                 *)
(*                                                                         *)
(* Sensor values are Python floats.  They are modelled in fixed point, in  *)
(* units of 1/Scale (hundredths), one decimal digit finer than the finest  *)
(* precision of the registry, so that rounding to a precision is a real    *)
(* operation.  Random draws are choices from bounded grids.                *)
(***************************************************************************)
EXTENDS Integers, Sequences, FiniteSets, TLC

VARIABLES
    LOCATIONS,    \* the module-level list of locations, shared by reference
    args,         \* the parsed command line of main()
    devices,      \* generator.devices (SpecDevice: the one device under test)
    pc,           \* position of the program
    idx,          \* generate_batch: index of the device the for loop is at
    readings,     \* generate_batch: its local list of readings
    batch,        \* main: the batch returned by the last generate_batch
    all_data,     \* main: the readings accumulated for the export
    count,        \* main: the loop counter
    put_calls,    \* calls of put_records made for the current tick
    put_result,   \* outcome of put_records in the last tick that reached the send step
    sent,         \* the batches handed to put_records, in order
    exports,      \* the calls of save_to_file / save_to_csv, in order
    interrupted,  \* a KeyboardInterrupt has been raised
    ticks,        \* calls of generate_batch so far
    calls,        \* generate_reading calls per device in the current generate_batch
    generated,    \* readings returned by generate_reading so far (a count)
    at_tick,      \* generator.devices as it was when the current generate_batch began
    prev,         \* generator.devices as it was before the last generate_reading
    last          \* the last generate_reading call: device, draws, returned reading

vars == <<LOCATIONS, args, devices, pc, idx, readings, batch, all_data, count,
          put_calls, put_result, sent, exports, interrupted, ticks, calls,
          generated, at_tick, prev, last>>

----------------------------------------------------------------------------
(* Bounds of the model *)

\* the uniform draw of an initial value is one of InitSteps+1 grid points
InitSteps == 3
\* the uniform draw of a drift is one of 2*DriftSteps+1 grid points
DriftSteps == 2
\* generate_reading calls on the device under test (SpecDevice)
MaxCalls == 2

\* fixed-point units per 1.0
Scale == 100

----------------------------------------------------------------------------
(* The registries *)

SENSOR_TYPES ==
    [temperature   |-> [min |-> -10 * Scale, max |-> 45 * Scale, precision |-> 1,
                        drift_factor |-> Scale \div 10, decay |-> FALSE],
     humidity      |-> [min |-> 0, max |-> 100 * Scale, precision |-> 1,
                        drift_factor |-> 2 * Scale, decay |-> FALSE],
     pressure      |-> [min |-> 970 * Scale, max |-> 1050 * Scale, precision |-> 1,
                        drift_factor |-> Scale \div 2, decay |-> FALSE],
     light_level   |-> [min |-> 0, max |-> 10000 * Scale, precision |-> 0,
                        drift_factor |-> 50 * Scale, decay |-> FALSE],
     air_quality   |-> [min |-> 0, max |-> 500 * Scale, precision |-> 1,
                        drift_factor |-> 5 * Scale, decay |-> FALSE],
     battery_level |-> [min |-> 0, max |-> 100 * Scale, precision |-> 0,
                        drift_factor |-> Scale \div 10, decay |-> TRUE]]

Kinds == DOMAIN SENSOR_TYPES

\* latitude and longitude in units of 0.0001 degree
LocationTable ==
    << [id |-> "warehouse_a",      lat |-> 476062, lon |-> -1223321],
       [id |-> "warehouse_b",      lat |-> 476152, lon |-> -1223447],
       [id |-> "office_main",      lat |-> 476205, lon |-> -1223493],
       [id |-> "production_floor", lat |-> 476170, lon |-> -1223377],
       [id |-> "storage_cold",     lat |-> 476180, lon |-> -1223399] >>

----------------------------------------------------------------------------
(* Arithmetic of the float operations, in fixed point *)

Abs(x) == IF x < 0 THEN -x ELSE x

Max2(a, b) == IF a >= b THEN a ELSE b

Min2(a, b) == IF a <= b THEN a ELSE b

Pow10(n) == IF n = 0 THEN 1 ELSE 10

\* rounding towards minus infinity instead of to the nearest
RoundDown(x, precision) ==
    LET step == Scale \div Pow10(precision)
    IN  (x \div step) * step

\* round(x, precision): to the nearest multiple of 10^-precision, ties to even
Round(x, precision) ==
    LET step == Scale \div Pow10(precision)
        q    == x \div step
        r    == x % step
    IN  IF 2 * r < step THEN q * step
        ELSE IF 2 * r > step THEN (q + 1) * step
        ELSE IF q % 2 = 0 THEN q * step ELSE (q + 1) * step

\* random.uniform(lo, hi): grid point k of n between lo and hi
Uniform(lo, hi, k, n) == lo + ((hi - lo) * k) \div n

\* random.uniform(-drift_factor, drift_factor): grid point k in -DriftSteps..DriftSteps
UniformDrift(cfg, k) ==
    IF k >= 0 THEN (cfg.drift_factor * k) \div DriftSteps
    ELSE -((cfg.drift_factor * (-k)) \div DriftSteps)

\* the drift as applied: a decay kind only ever drifts downwards
Drift(cfg, k) ==
    IF cfg.decay THEN Abs(UniformDrift(cfg, k)) * (-1) ELSE UniformDrift(cfg, k)

\* Clamp with the upper bound forgotten
ClampLowerOnly(cfg, v) == Max2(cfg.min, v)

Clamp(cfg, v) == Max2(cfg.min, Min2(v, cfg.max))

\* one iteration of the sensor loop of generate_reading: the new current value
NewValue(kind, cur, k) ==
    LET cfg == SENSOR_TYPES[kind]
    IN  Round(Clamp(cfg, cur + Drift(cfg, k)), cfg.precision)

----------------------------------------------------------------------------
(* SensorDevice *)

RegisteredOf(sensor_types) ==
    {sensor_types[i] : i \in 1..Len(sensor_types)} \cap Kinds

\* __init__ without the registration test: every listed kind gets a value
InitValuesUnchecked(sensor_types, init, cv, i) ==
    [kind \in {sensor_types[j] : j \in 1..Len(sensor_types)} |-> 0]

\* SensorDevice.__init__; init[i] is the grid point drawn for sensor_types[i].
\* A kind listed twice keeps the value of its last draw.
RECURSIVE InitValues(_, _, _, _)
InitValues(sensor_types, init, cv, i) ==
    IF i > Len(sensor_types) THEN cv
    ELSE LET kind == sensor_types[i]
         IN  IF kind \in Kinds
             THEN InitValues(sensor_types, init,
                     (kind :> Uniform(SENSOR_TYPES[kind].min, SENSOR_TYPES[kind].max,
                                      init[i], InitSteps)) @@ cv,
                     i + 1)
             ELSE InitValues(sensor_types, init, cv, i + 1)

SensorDevice(device_id, location, sensor_types, init) ==
    [device_id      |-> device_id,
     location       |-> location,
     sensor_types   |-> sensor_types,
     current_values |-> InitValues(sensor_types, init, <<>>, 1)]

\* the sensor loop of generate_reading from position i on
RECURSIVE DriftLoop(_, _, _, _, _)
DriftLoop(sensor_types, drift, cv, rd, i) ==
    IF i > Len(sensor_types) THEN [current_values |-> cv, readings |-> rd]
    ELSE LET kind == sensor_types[i]
         IN  IF kind \in Kinds
             THEN LET new_value == NewValue(kind, cv[kind], drift[i])
                  IN  DriftLoop(sensor_types, drift,
                                [cv EXCEPT ![kind] = new_value],
                                (kind :> new_value) @@ rd, i + 1)
             ELSE DriftLoop(sensor_types, drift, cv, rd, i + 1)

\* the draws of the anomaly branch: whether it fires, the position chosen by
\* random.choice(self.sensor_types), and spike or drop
NoAnomaly == [fire |-> FALSE, at |-> 1, spike |-> FALSE]

AnomalyDraws(sensor_types) ==
    {NoAnomaly} \cup
    [fire : {TRUE}, at : 1..Len(sensor_types), spike : BOOLEAN]

\* the anomaly branch overriding every reading instead of the chosen one
ApplyAnomalyToAll(sensor_types, rd, anomaly) ==
    IF ~anomaly.fire THEN rd
    ELSE [kind \in DOMAIN rd |->
             IF anomaly.spike THEN SENSOR_TYPES[kind].max
             ELSE SENSOR_TYPES[kind].min]

\* the anomaly branch: overrides the value in the readings dict only
ApplyAnomaly(sensor_types, rd, anomaly) ==
    IF ~anomaly.fire THEN rd
    ELSE LET anomaly_sensor == sensor_types[anomaly.at]
         IN  IF anomaly_sensor \in DOMAIN rd
             THEN [rd EXCEPT ![anomaly_sensor] =
                      IF anomaly.spike THEN SENSOR_TYPES[anomaly_sensor].max
                      ELSE SENSOR_TYPES[anomaly_sensor].min]
             ELSE rd

\* the jitter of a coordinate is at most JitterMax (units of 0.0001 degree)
JitterMax == 1

\* the two random.uniform(-0.0001, 0.0001) draws of a reading, latitude and
\* longitude: one pair, off the base coordinates on both axes
JitterDraws == {<<JitterMax, -JitterMax>>}

\* the coordinates of a reading: the base coordinates of the location plus jitter
Coordinates(location, jitter) ==
    [latitude  |-> location.lat + jitter[1],
     longitude |-> location.lon + jitter[2]]

\* generate_reading with the anomaly override written back to current_values
GenerateReadingPersisting(dev, drift, anomaly, jitter) ==
    LET looped == DriftLoop(dev.sensor_types, drift, dev.current_values, <<>>, 1)
        rd     == ApplyAnomaly(dev.sensor_types, looped.readings, anomaly)
    IN  [device    |-> [dev EXCEPT !.current_values = rd],
         locations |-> LOCATIONS,
         reading   |-> [device_id   |-> dev.device_id,
                        location_id |-> LOCATIONS[dev.location].id,
                        coordinates |-> Coordinates(LOCATIONS[dev.location], jitter),
                        readings    |-> rd]]

\* generate_reading with the jittered coordinates stored in self.location
GenerateReadingMovingLocation(dev, drift, anomaly, jitter) ==
    LET looped == DriftLoop(dev.sensor_types, drift, dev.current_values, <<>>, 1)
        coords == Coordinates(LOCATIONS[dev.location], jitter)
    IN  [device    |-> [dev EXCEPT !.current_values = looped.current_values],
         locations |-> [LOCATIONS EXCEPT ![dev.location].lat = coords.latitude,
                                         ![dev.location].lon = coords.longitude],
         reading   |-> [device_id   |-> dev.device_id,
                        location_id |-> LOCATIONS[dev.location].id,
                        coordinates |-> coords,
                        readings    |-> ApplyAnomaly(dev.sensor_types,
                                                     looped.readings, anomaly)]]

\* SensorDevice.generate_reading: the device after the call, the LOCATIONS
\* list after the call (self.location is one of its entries, by reference),
\* and the reading returned
GenerateReading(dev, drift, anomaly, jitter) ==
    LET looped == DriftLoop(dev.sensor_types, drift, dev.current_values, <<>>, 1)
    IN  [device    |-> [dev EXCEPT !.current_values = looped.current_values],
         locations |-> LOCATIONS,
         reading   |-> [device_id   |-> dev.device_id,
                        location_id |-> LOCATIONS[dev.location].id,
                        coordinates |-> Coordinates(LOCATIONS[dev.location], jitter),
                        readings    |-> ApplyAnomaly(dev.sensor_types,
                                                     looped.readings, anomaly)]]

DriftDraws(sensor_types) == [1..Len(sensor_types) -> -DriftSteps..DriftSteps]

InitDraws(sensor_types) == [1..Len(sensor_types) -> 0..InitSteps]

----------------------------------------------------------------------------
(* SpecDevice: one SensorDevice, constructed directly and then read *)

\* an unregistered kind, as a caller of SensorDevice may pass one
UnregisteredKind == "co2"

\* the sensor_types lists the device under test is constructed with
SampleSensorLists ==
    {<<kind>> : kind \in Kinds} \cup
    {<<"battery_level", "temperature">>, <<"humidity", UnregisteredKind>>}

\* the locations the device under test is constructed with: the first and the last
SampleLocations == {1, Len(LocationTable)}

NoCall == [dev |-> 0, anomaly |-> NoAnomaly, reading |-> <<>>]

InitCommon ==
    /\ LOCATIONS = LocationTable
    /\ devices = <<>>
    /\ idx = 0
    /\ readings = <<>>
    /\ batch = <<>>
    /\ all_data = <<>>
    /\ count = 0
    /\ put_calls = 0
    /\ put_result = "none"
    /\ sent = <<>>
    /\ exports = <<>>
    /\ interrupted = FALSE
    /\ ticks = 0
    /\ calls = <<>>
    /\ generated = 0
    /\ at_tick = <<>>
    /\ prev = <<>>
    /\ last = NoCall

NoArgs == [devices |-> 1, count |-> 0, output |-> "", format |-> "json", kinesis |-> ""]

DeviceInit ==
    /\ InitCommon
    /\ args = NoArgs
    /\ pc = "new"

\* SensorDevice(device_id, location, sensor_types)
NewDevice ==
    /\ pc = "new"
    /\ \E sensor_types \in SampleSensorLists, location \in SampleLocations :
         \E init \in InitDraws(sensor_types) :
            devices' = <<SensorDevice(0, location, sensor_types, init)>>
    /\ pc' = "ready"
    /\ UNCHANGED <<LOCATIONS, at_tick, args, idx, readings, batch, all_data, count, put_calls,
                   put_result, sent, exports, interrupted, ticks, calls, generated,
                   prev, last>>

\* device.generate_reading() on the device under test
ReadDevice ==
    /\ pc = "ready"
    /\ generated < MaxCalls
    /\ \E drift \in DriftDraws(devices[1].sensor_types),
          anomaly \in AnomalyDraws(devices[1].sensor_types),
          jitter \in JitterDraws :
         LET res == GenerateReading(devices[1], drift, anomaly, jitter)
         IN  /\ devices' = <<res.device>>
             /\ LOCATIONS' = res.locations
             /\ last' = [dev |-> 1, anomaly |-> anomaly, reading |-> res.reading]
    /\ prev' = devices
    /\ generated' = generated + 1
    /\ UNCHANGED <<at_tick, args, pc, idx, readings, batch, all_data, count,
                   put_calls, put_result, sent, exports, interrupted, ticks, calls>>

DeviceNext == NewDevice \/ ReadDevice

SpecDevice == DeviceInit /\ [][DeviceNext]_vars

----------------------------------------------------------------------------
(* DataGenerator *)

\* device counts of the fleet under test (SpecFleet)
MaxDevices == 2
\* the id token uuid4().hex[:8] is one of MaxToken values
MaxToken == 2
\* generate_batch calls on the fleet under test (SpecFleet)
MaxBatches == 2

Tokens == 0..(MaxToken - 1)

\* one outcome of random.sample(available_sensors, num_sensors), num_sensors = 4
FleetSensorList == <<"battery_level", "temperature", "humidity", "pressure">>

\* the draws DataGenerator.__init__ makes for one device: the id token, the
\* location, the sensor list, and one grid point for all its initial values
FleetDraws == Tokens \X SampleLocations \X {FleetSensorList} \X {InitSteps \div 2}

\* the draws generate_reading makes in a fleet: one grid point for all drifts,
\* and the anomaly branch not taken
FleetDriftDraws(sensor_types) == {[i \in 1..Len(sensor_types) |-> -DriftSteps]}

FleetAnomalyDraws(sensor_types) == {NoAnomaly}

\* DataGenerator.__init__: draws[i] are the draws made for device i
NewFleet(num_devices, draws) ==
    [i \in 1..num_devices |->
        SensorDevice(draws[i][1], draws[i][2], draws[i][3],
                     [j \in 1..Len(draws[i][3]) |-> draws[i][4]])]

\* readings.append(device.generate_reading()), in the wrong place
PrependReading(rds, reading) == <<reading>> \o rds

\* readings.append(device.generate_reading())
AppendReading(rds, reading) == Append(rds, reading)

\* generate_batch: readings = [] and the start of the for loop
BatchBegin ==
    /\ idx' = 1
    /\ readings' = <<>>
    /\ ticks' = ticks + 1
    /\ calls' = [i \in 1..Len(devices) |-> 0]
    /\ at_tick' = devices

\* generate_batch: one iteration of the for loop, the device is skipped or read
BatchStep ==
    /\ pc = "batch"
    /\ idx <= Len(devices)
    /\ \/ /\ UNCHANGED <<LOCATIONS, devices, readings, calls, generated, prev, last>>
       \/ /\ \E drift \in FleetDriftDraws(devices[idx].sensor_types),
                anomaly \in FleetAnomalyDraws(devices[idx].sensor_types),
                jitter \in JitterDraws :
               LET res == GenerateReading(devices[idx], drift, anomaly, jitter)
               IN  /\ devices' = [devices EXCEPT ![idx] = res.device]
                   /\ LOCATIONS' = res.locations
                   /\ readings' = AppendReading(readings, res.reading)
                   /\ last' = [dev |-> idx, anomaly |-> anomaly,
                               reading |-> res.reading]
          /\ calls' = [calls EXCEPT ![idx] = @ + 1]
          /\ generated' = generated + 1
          /\ prev' = devices
    /\ idx' = idx + 1
    /\ UNCHANGED <<at_tick, args, pc, batch, all_data, count, put_calls,
                   put_result, sent, exports, interrupted, ticks>>

----------------------------------------------------------------------------
(* SpecFleet: a DataGenerator, constructed and asked for batches *)

FleetInit ==
    /\ InitCommon
    /\ args \in [devices : 0..MaxDevices, count : {0}, output : {""},
                 format : {"json"}, kinesis : {""}]
    /\ pc = "start"

\* generator = DataGenerator(num_devices=args.devices)
FleetConstruct ==
    /\ pc = "start"
    /\ \E draws \in [1..args.devices -> FleetDraws] :
          devices' = NewFleet(args.devices, draws)
    /\ pc' = "idle"
    /\ UNCHANGED <<LOCATIONS, at_tick, args, idx, readings, batch, all_data, count, put_calls,
                   put_result, sent, exports, interrupted, ticks, calls, generated,
                   prev, last>>

\* generator.generate_batch() is called
FleetBatchCall ==
    /\ pc = "idle"
    /\ ticks < MaxBatches
    /\ BatchBegin
    /\ pc' = "batch"
    /\ UNCHANGED <<LOCATIONS, args, devices, batch, all_data, count, put_calls,
                   put_result, sent, exports, interrupted, generated, prev, last>>

\* return readings
FleetBatchReturn ==
    /\ pc = "batch"
    /\ idx > Len(devices)
    /\ batch' = readings
    /\ pc' = "idle"
    /\ UNCHANGED <<LOCATIONS, at_tick, args, devices, idx, readings, all_data, count,
                   put_calls, put_result, sent, exports, interrupted, ticks, calls,
                   generated, prev, last>>

FleetNext == FleetConstruct \/ FleetBatchCall \/ BatchStep \/ FleetBatchReturn

SpecFleet == FleetInit /\ [][FleetNext]_vars

----------------------------------------------------------------------------
(* Spec: main(), the emission loop *)

\* --devices is at most MaxLoopDevices
MaxLoopDevices == 1
\* --count is at most MaxCount; a run with --count 0 is followed for MaxCount + 1 ticks
MaxCount == 2

\* the draws DataGenerator.__init__ makes for one device of the loop's fleet
LoopDraws == Tokens \X {1} \X {FleetSensorList} \X {InitSteps \div 2}

\* the command lines: --format matters only with --output
ArgSet ==
    {a \in [devices : 0..MaxLoopDevices, count : 0..MaxCount,
            output : {"", "out"}, format : {"json", "csv"},
            kinesis : {"", "stream"}] :
        a.output = "" => a.format = "json"}

\* the positions inside the try block: the loop is RUNNING
RunningPcs == {"while", "batch", "send", "extend", "sleep"}

\* the while condition, off by one
LoopConditionInclusive(a, c) == a.count = 0 \/ c <= a.count

\* while args.count == 0 or count < args.count
LoopCondition(a, c) == a.count = 0 \/ c < a.count

\* put_records: accepted, some records rejected, or an exception
PutOutcomes == {"ok", "partial", "error"}

\* send_to_kinesis with the exception of put_records not caught
AfterPutUncaught(outcome) == IF outcome = "error" THEN "aborted" ELSE "extend"

\* send_to_kinesis returns to main whatever put_records did: a rejection is
\* logged, an exception is caught and logged
AfterPut(outcome) == "extend"

\* the final export without the test that anything was accumulated
FinalExportsAlways(a, data) ==
    IF a.output # ""
    THEN <<[fn |-> IF a.format = "json" THEN "save_to_file" ELSE "save_to_csv",
            data |-> data, filename |-> a.output]>>
    ELSE <<>>

\* the calls of save_to_file / save_to_csv made after the loop
FinalExports(a, data) ==
    IF a.output # "" /\ data # <<>>
    THEN <<[fn |-> IF a.format = "json" THEN "save_to_file" ELSE "save_to_csv",
            data |-> data, filename |-> a.output]>>
    ELSE <<>>

Init ==
    /\ InitCommon
    /\ args \in ArgSet
    /\ pc = "start"

\* generator = DataGenerator(num_devices=args.devices); all_data = []; count = 0
Construct ==
    /\ pc = "start"
    /\ \E draws \in [1..args.devices -> LoopDraws] :
          devices' = NewFleet(args.devices, draws)
    /\ all_data' = <<>>
    /\ count' = 0
    /\ pc' = "while"
    /\ UNCHANGED <<LOCATIONS, at_tick, args, idx, readings, batch, put_calls, put_result,
                   sent, exports, interrupted, ticks, calls, generated, prev, last>>

\* the while test holds: batch = generator.generate_batch() is entered
WhileEnter ==
    /\ pc = "while"
    /\ LoopCondition(args, count)
    /\ ticks < MaxCount + 1
    /\ BatchBegin
    /\ put_calls' = 0
    /\ pc' = "batch"
    /\ UNCHANGED <<LOCATIONS, args, devices, batch, all_data, count, put_result, sent,
                   exports, interrupted, generated, prev, last>>

\* the while test fails: the loop ends
WhileExit ==
    /\ pc = "while"
    /\ ~LoopCondition(args, count)
    /\ pc' = "flush"
    /\ UNCHANGED <<LOCATIONS, at_tick, args, devices, idx, readings, batch, all_data, count,
                   put_calls, put_result, sent, exports, interrupted, ticks, calls,
                   generated, prev, last>>

\* generate_batch returns; the sample is logged
LoopBatchReturn ==
    /\ pc = "batch"
    /\ idx > Len(devices)
    /\ batch' = readings
    /\ pc' = "send"
    /\ UNCHANGED <<LOCATIONS, at_tick, args, devices, idx, readings, all_data, count,
                   put_calls, put_result, sent, exports, interrupted, ticks, calls,
                   generated, prev, last>>

\* if args.kinesis and batch: generator.send_to_kinesis(args.kinesis, batch)
Send ==
    /\ pc = "send"
    /\ IF args.kinesis # "" /\ batch # <<>>
       THEN \E outcome \in PutOutcomes :
               /\ sent' = Append(sent, batch)
               /\ put_calls' = put_calls + 1
               /\ put_result' = outcome
               /\ pc' = AfterPut(outcome)
       ELSE /\ UNCHANGED <<sent, put_calls>>
            /\ put_result' = "none"
            /\ pc' = "extend"
    /\ UNCHANGED <<LOCATIONS, at_tick, args, devices, idx, readings, batch, all_data, count,
                   exports, interrupted, ticks, calls, generated, prev, last>>

\* if args.output: all_data.extend(batch)
Extend ==
    /\ pc = "extend"
    /\ all_data' = IF args.output # "" THEN all_data \o batch ELSE all_data
    /\ pc' = "sleep"
    /\ UNCHANGED <<LOCATIONS, at_tick, args, devices, idx, readings, batch, count, put_calls,
                   put_result, sent, exports, interrupted, ticks, calls, generated,
                   prev, last>>

\* time.sleep(args.frequency); count += 1
Sleep ==
    /\ pc = "sleep"
    /\ count' = count + 1
    /\ pc' = "while"
    /\ UNCHANGED <<LOCATIONS, at_tick, args, devices, idx, readings, batch, all_data,
                   put_calls, put_result, sent, exports, interrupted, ticks, calls,
                   generated, prev, last>>

\* KeyboardInterrupt inside the try block: the except clause logs it and the
\* program goes on after the loop
InterruptInLoop ==
    /\ pc \in RunningPcs
    /\ interrupted' = TRUE
    /\ pc' = "flush"
    /\ UNCHANGED <<LOCATIONS, at_tick, args, devices, idx, readings, batch, all_data, count,
                   put_calls, put_result, sent, exports, ticks, calls, generated,
                   prev, last>>

\* KeyboardInterrupt outside the try block is not caught: the process dies
InterruptOutside ==
    /\ pc \in {"start", "flush"}
    /\ interrupted' = TRUE
    /\ pc' = "aborted"
    /\ UNCHANGED <<LOCATIONS, at_tick, args, devices, idx, readings, batch, all_data, count,
                   put_calls, put_result, sent, exports, ticks, calls, generated,
                   prev, last>>

\* the export after the loop, then main returns
Flush ==
    /\ pc = "flush"
    /\ exports' = exports \o FinalExports(args, all_data)
    /\ pc' = "done"
    /\ UNCHANGED <<LOCATIONS, at_tick, args, devices, idx, readings, batch, all_data, count,
                   put_calls, put_result, sent, interrupted, ticks, calls, generated,
                   prev, last>>

\* the steps of the program itself
Step ==
    \/ Construct
    \/ WhileEnter
    \/ WhileExit
    \/ BatchStep
    \/ LoopBatchReturn
    \/ Send
    \/ Extend
    \/ Sleep
    \/ Flush

Next == Step \/ InterruptInLoop \/ InterruptOutside

Spec == Init /\ [][Next]_vars

\* the program keeps running: a step that can be taken is taken
FairSpec == Spec /\ WF_vars(Step)

----------------------------------------------------------------------------
(* Claims about SensorDevice, checked under SpecDevice *)

\* the anomaly branch of the last call overrode the reported value of a kind
AnomalyHit ==
    /\ last.dev # 0
    /\ last.anomaly.fire
    /\ devices[last.dev].sensor_types[last.anomaly.at] \in DOMAIN last.reading.readings

AnomalySensor == devices[last.dev].sensor_types[last.anomaly.at]

\* C1: every persisted current value of every device, for every registered kind
\* the device supports, lies in [min, max] of its kind: after construction and
\* after every generate_reading call, with or without the anomaly branch.
C1_BoundsInvariant ==
    \A i \in DOMAIN devices :
        /\ DOMAIN devices[i].current_values = RegisteredOf(devices[i].sensor_types)
        /\ \A kind \in DOMAIN devices[i].current_values :
              /\ devices[i].current_values[kind] >= SENSOR_TYPES[kind].min
              /\ devices[i].current_values[kind] <= SENSOR_TYPES[kind].max

\* a call whose anomaly branch fired, made on a device a value of which sits on a bound
C1_Witness ==
    /\ AnomalyHit
    /\ generated = MaxCalls
    /\ \E kind \in DOMAIN devices[1].current_values :
          /\ devices[1].current_values[kind] = SENSOR_TYPES[kind].max
          /\ prev[1].current_values[kind] = SENSOR_TYPES[kind].max

\* C2: a generate_reading call never raises the persisted value of a decay kind.
C2_DecayMonotone ==
    last.dev # 0 =>
        \A kind \in DOMAIN devices[last.dev].current_values :
            SENSOR_TYPES[kind].decay =>
                devices[last.dev].current_values[kind]
                    <= prev[last.dev].current_values[kind]

\* C8 as claimed: a device that has been read holds registered kinds only
\* (construction with an unregistered kind would have failed).
C8_FailsAtCreation ==
    \A i \in DOMAIN devices :
        \A j \in 1..Len(devices[i].sensor_types) :
            devices[i].sensor_types[j] \in Kinds

\* C8 as amended: an unregistered kind is accepted and silently skipped. The
\* device keeps it in sensor_types, holds no current value for it, and no
\* reading has an entry for it, also when the anomaly branch picks it.
C8_UnregisteredIgnored ==
    /\ \A i \in DOMAIN devices :
          DOMAIN devices[i].current_values = RegisteredOf(devices[i].sensor_types)
    /\ last.dev # 0 =>
          DOMAIN last.reading.readings = RegisteredOf(devices[last.dev].sensor_types)

\* a device holding an unregistered kind was read, and the anomaly branch picked that kind
C8_Witness ==
    /\ last.dev # 0
    /\ last.anomaly.fire
    /\ devices[last.dev].sensor_types[last.anomaly.at] \notin Kinds
    /\ DOMAIN last.reading.readings # {}

\* C9 as claimed: the extreme value of the anomaly override is also the
\* persisted current value of that kind.
C9_OverridePersists ==
    AnomalyHit =>
        devices[last.dev].current_values[AnomalySensor]
            = last.reading.readings[AnomalySensor]

\* C9 as amended: the override changes the reported value only. The persisted
\* value of every kind, the overridden one included, is the previous persisted
\* value drifted, clamped and rounded, and every kind not overridden reports
\* its persisted value.
C9_OverrideReadingOnly ==
    last.dev # 0 =>
        \A kind \in DOMAIN devices[last.dev].current_values :
            /\ \E k \in -DriftSteps..DriftSteps :
                  devices[last.dev].current_values[kind]
                      = NewValue(kind, prev[last.dev].current_values[kind], k)
            /\ (~AnomalyHit \/ kind # AnomalySensor) =>
                  last.reading.readings[kind] = devices[last.dev].current_values[kind]

\* the anomaly branch reported an extreme that is not the persisted value
C9_Witness ==
    /\ AnomalyHit
    /\ last.reading.readings[AnomalySensor] = SENSOR_TYPES[AnomalySensor].max
    /\ devices[last.dev].current_values[AnomalySensor] < SENSOR_TYPES[AnomalySensor].max

----------------------------------------------------------------------------
(* Claims about DataGenerator, checked under SpecFleet *)

Ids(seq) == [i \in 1..Len(seq) |-> seq[i].device_id]

\* whether s is a subsequence of t
RECURSIVE IsSubseq(_, _)
IsSubseq(s, t) ==
    IF s = <<>> THEN TRUE
    ELSE IF t = <<>> THEN FALSE
    ELSE IF Head(s) = Head(t) THEN IsSubseq(Tail(s), Tail(t))
    ELSE IsSubseq(s, Tail(t))

\* the ids of the devices 1..n that generate_reading was called on, in fleet order
RECURSIVE ReportedIds(_)
ReportedIds(n) ==
    IF n = 0 THEN <<>>
    ELSE IF calls[n] > 0 THEN Append(ReportedIds(n - 1), devices[n].device_id)
    ELSE ReportedIds(n - 1)

\* C7: within one generate_batch call generate_reading is called at most once
\* on each device, and the list of readings (and the batch returned) names the
\* devices that were read in the fleet's order: a subsequence of the fleet's
\* device sequence, no longer than the fleet.
C7_OncePerDeviceInOrder ==
    ticks > 0 =>
        /\ DOMAIN calls = 1..Len(devices)
        /\ \A i \in DOMAIN calls : calls[i] <= 1
        /\ Ids(readings) = ReportedIds(Len(devices))
        /\ IsSubseq(Ids(readings), Ids(devices))
        /\ Len(readings) <= Len(devices)
        /\ pc = "idle" => batch = readings

\* a batch of two readings from two devices with different ids was returned
C7_Witness ==
    /\ pc = "idle"
    /\ ticks = MaxBatches
    /\ Len(batch) = 2
    /\ batch[1].device_id # batch[2].device_id

\* C10: a constructed DataGenerator holds exactly num_devices devices, and no
\* two of them have the same device_id.
C10_UniqueIds ==
    pc # "start" =>
        /\ Len(devices) = args.devices
        /\ \A i, j \in DOMAIN devices : i # j => devices[i].device_id # devices[j].device_id

----------------------------------------------------------------------------
(* Claims about the emission loop, checked under Spec and FairSpec *)

\* the records handed to put_records so far
RECURSIVE SentCount(_)
SentCount(n) == IF n = 0 THEN 0 ELSE SentCount(n - 1) + Len(sent[n])

\* C3: when the loop has left RUNNING, every reading generated (every device
\* advance) has been accumulated for the export when --output is given, and
\* handed to the sink when --kinesis is given: an interruption during a tick
\* does not drop the tick's batch.
C3_TickCompletes ==
    pc \in {"flush", "done"} =>
        /\ args.output # "" => Len(all_data) = generated
        /\ args.kinesis # "" => SentCount(Len(sent)) = generated

\* C4 as claimed: when main is done and --output is given, the export was
\* called exactly once, with everything accumulated.
C4_FlushOnce ==
    (pc = "done" /\ args.output # "") =>
        /\ Len(exports) = 1
        /\ exports[1].data = all_data

\* a step taken after the loop has left RUNNING makes no tick
NoTickAfterLeaving ==
    pc \in {"flush", "done", "aborted"} =>
        /\ pc' \in {"flush", "done", "aborted"}
        /\ ticks' = ticks
        /\ devices' = devices
        /\ all_data' = all_data

\* C4 as amended: when main is done, the export was called exactly once, with
\* everything accumulated, to the function of --format, if --output is given
\* and at least one reading was accumulated, and not at all otherwise; before
\* that it is never called; and once the loop has left RUNNING no further
\* generate_batch is made: no tick, no device advance, nothing accumulated.
C4_FinalFlush ==
    /\ [](pc = "done" =>
            exports = IF args.output # "" /\ all_data # <<>>
                      THEN <<[fn |-> IF args.format = "json" THEN "save_to_file"
                                     ELSE "save_to_csv",
                              data |-> all_data, filename |-> args.output]>>
                      ELSE <<>>)
    /\ [](pc # "done" => exports = <<>>)
    /\ [][NoTickAfterLeaving]_vars

\* main is done after an interruption, two readings were exported in one call
C4_Witness ==
    /\ pc = "done"
    /\ interrupted
    /\ Len(exports) = 1
    /\ Len(exports[1].data) = 2

\* C5: with --count N > 0 the loop never makes more than N ticks; when it has
\* left RUNNING without an interruption, N > 0 and exactly N ticks were made
\* (so with --count 0 only an interruption ends it); and with N > 0 the
\* program reaches the end of main unless it is interrupted.
C5_TickLimit ==
    /\ [](args.count > 0 => ticks <= args.count)
    /\ []((pc \notin RunningPcs \cup {"start"} /\ ~interrupted) =>
            (args.count > 0 /\ ticks = args.count))
    /\ (args.count > 0) ~> (pc = "done" \/ interrupted)

\* main is done without interruption after MaxCount ticks
C5_Witness ==
    /\ pc = "done"
    /\ ~interrupted
    /\ args.count = MaxCount
    /\ ticks = MaxCount

\* what a step does after put_records failed in the tick
RecoversFromSink ==
    LET failed == put_result \in {"partial", "error"}
        nointr == interrupted' = interrupted
    IN  /\ (sent' # sent /\ put_result' \in {"partial", "error"}) =>
              /\ pc = "send"
              /\ pc' = "extend"
              /\ put_calls' = 1
              /\ sent' = Append(sent, batch)
              /\ batch' = batch
        /\ (failed /\ nointr /\ pc = "extend") =>
              /\ pc' = "sleep"
              /\ all_data' = IF args.output # "" THEN all_data \o batch
                             ELSE all_data
        /\ (failed /\ nointr /\ pc = "sleep") => pc' = "while"
        /\ (failed /\ nointr /\ pc = "while"
                   /\ (args.count = 0 \/ count < args.count)) =>
              /\ pc' = "batch"
              /\ ticks' = ticks + 1
        /\ put_calls' <= 1

\* C6: a put_records that rejects records or raises leaves the loop RUNNING
\* with the sink called once for the tick's batch; unless interrupted, the
\* tick's batch is then accumulated (with --output), the loop goes on to its
\* test, and the next tick is generated if the limit allows one.
C6_SinkRecoverable == [][RecoversFromSink]_vars

\* after a put_records that raised, the batch was accumulated and the next tick is under way
C6_Witness ==
    /\ pc = "batch"
    /\ put_result = "error"
    /\ ticks = 2
    /\ all_data # <<>>
    /\ readings # <<>>

----------------------------------------------------------------------------
(* The frame of a device advance, checked under SpecFleet *)

\* C11: a generate_reading call changes nothing but the current_values of the
\* device it is called on: every other device is as it was before the call,
\* the device itself keeps its id, location and sensor list, and the base
\* coordinates of the shared LOCATIONS entries are those of the registry; and
\* a device generate_batch has not read in the current tick is as it was when
\* the tick began.
C11_Frame ==
    /\ LOCATIONS = LocationTable
    /\ last.dev # 0 =>
          /\ \A j \in DOMAIN devices : j # last.dev => devices[j] = prev[j]
          /\ [devices[last.dev] EXCEPT
                 !.current_values = prev[last.dev].current_values] = prev[last.dev]
    /\ ticks > 0 =>
          \A j \in DOMAIN devices : calls[j] = 0 => devices[j] = at_tick[j]

\* two devices share a location; in the tick returned the first was read and
\* its values changed, the second was skipped
C11_Witness ==
    /\ pc = "idle"
    /\ ticks = MaxBatches
    /\ Len(devices) = 2
    /\ devices[1].location = devices[2].location
    /\ calls[1] = 1
    /\ calls[2] = 0
    /\ devices[1].current_values # at_tick[1].current_values
    /\ last.reading.coordinates.latitude # LOCATIONS[devices[1].location].lat

----------------------------------------------------------------------------
(* The shape of a reading, checked under SpecDevice *)

\* the kinds whose reported value is not the persisted value after the last call
Overridden ==
    {kind \in DOMAIN last.reading.readings :
        last.reading.readings[kind] # devices[last.dev].current_values[kind]}

\* C12: the reading returned for a device whose kinds are all registered has an
\* entry for every kind of the device; at most one of its values differs from
\* the device's persisted value after the call, and one that differs is the
\* min or the max of its kind.
C12_AnomalyShape ==
    (/\ last.dev # 0
     /\ \A i \in 1..Len(devices[last.dev].sensor_types) :
           devices[last.dev].sensor_types[i] \in Kinds) =>
        /\ DOMAIN last.reading.readings =
              {devices[last.dev].sensor_types[i] :
                  i \in 1..Len(devices[last.dev].sensor_types)}
        /\ Cardinality(Overridden) <= 1
        /\ \A kind \in Overridden :
              last.reading.readings[kind]
                  \in {SENSOR_TYPES[kind].min, SENSOR_TYPES[kind].max}

\* a device of two registered kinds was read and one value was overridden, the
\* other reported as persisted
C12_Witness ==
    /\ last.dev # 0
    /\ Len(devices[last.dev].sensor_types) = 2
    /\ DOMAIN last.reading.readings = {"battery_level", "temperature"}
    /\ Cardinality(Overridden) = 1

----------------------------------------------------------------------------
(* Rounding and the battery decay, checked under SpecDevice *)

\* the persisted battery_level of the device under test
Battery(ds) == ds[1].current_values["battery_level"]

====
